---- MODULE Spec2Model ----
(***************************************************************************)
(* State-machine model of socketserverREPL.py: a threaded TCP server that  *)
(* gives every connection its own interactive console.  One worker thread  *)
(* per accepted connection (RequestPythonREPL.handle), the serve_forever   *)
(* thread that accepts connections, and the main thread that polls         *)
(* should_exit and then runs server_close / shutdown / join.               *)
(*                                                                         *)
(* Text is modelled as a sequence over Char: "a" stands for any ASCII      *)
(* character that is not whitespace, "x" for a character outside ASCII and *)
(* "\n" for the newline.  A Python value is a record [type, chars] with    *)
(* type "str" or "bytes", so that encode/decode are conversions that can   *)
(* fail and that leave the type unchanged when the failure is swallowed.   *)
(***************************************************************************)
EXTENDS Integers, Sequences, FiniteSets

\* ---------------------------------------------------------------- bounds
MaxConn == 2      \* connections that may arrive during one run
MaxReads == 2     \* lines (non-empty reads) delivered over all connections

Conn == 1..MaxConn

\* The worker thread of connection c is thread c; the main thread is thread 0
MainThread == 0
Thread == Conn \cup {MainThread}

\* ------------------------------------------------------------------ text
Char == {"a", "x", "\n"}

IsAscii(s) == \A i \in 1..Len(s) : s[i] # "x"

\* bytes.rstrip(): drop the trailing whitespace
RECURSIVE rstrip(_)
rstrip(s) ==
    IF Len(s) > 0 /\ s[Len(s)] = "\n" THEN rstrip(SubSeq(s, 1, Len(s) - 1)) ELSE s

Bytes(s) == [type |-> "bytes", chars |-> s]
Str(s) == [type |-> "str", chars |-> s]

\* r.decode('ascii') inside try/except-pass: on failure r keeps its type
decode_ascii(r) == IF IsAscii(r.chars) THEN Str(r.chars) ELSE r

\* bytes(f, 'ascii') inside try/except-pass: on failure f keeps its type
bytes_ascii(f) == IF IsAscii(f.chars) THEN Bytes(f.chars) ELSE f

\* a value handed to the display hook: None or a printable value
None == [none |-> TRUE, chars |-> <<>>]
Val(s) == [none |-> FALSE, chars |-> s]

\* --------------------------------------------------------------- inputs
\* What the evaluator makes of a complete statement
Complete == {"expr_a", "expr_x", "None", "raise_a", "raise_x", "Print_a",
             "halt", "exit", "close"}
Stmts == Complete \cup {"more"}

\* raw_value while no readline() of the current raw_input call has returned
NoRead == <<"?">>

\* One readline() result together with the meaning of the text: zero bytes,
\* a line with a non-ASCII character, a bare newline (which ends a pending
\* multi-line statement, here an expression), or a line of ASCII text
Inputs ==
    {[raw |-> <<>>, stmt |-> "-"], [raw |-> <<"x", "\n">>, stmt |-> "-"]}
    \cup {[raw |-> <<"\n">>, stmt |-> s] : s \in {"expr_a"}}
    \cup {[raw |-> <<"a", "\n">>, stmt |-> s] : s \in Stmts}

\* ------------------------------------------------------------ variables
VARIABLES
    should_exit,      \* module global, line 20
    env,              \* repl_scope of each session: what the names
                      \* should_exit, halt and Print are bound to
    thread_scope,     \* threading.local(): per thread, 0 = no displayhook
                      \* attribute, c = the output closure of connection c
    pc,               \* position of the worker of each connection
    more,             \* console buffer holds an incomplete statement
    stmt,             \* statement handed to runcode
    n,                \* lines read on the connection so far
    raw_value,        \* what the last readline() on the connection returned
    wclosed,          \* self.wfile.closed
    why,              \* how the session ended
    wbuf,             \* written to wfile, not yet flushed
    wire,             \* what the client has received since it last sent a line
    console,          \* stdout/stderr of the server process, per writing thread
    listening,        \* the listening socket is open
    shutdown_request, \* BaseServer.__shutdown_request
    serverPc,         \* serve_forever thread
    mainPc            \* main thread

vars == <<should_exit, env, thread_scope, pc, more, stmt, n, raw_value, wclosed, why, wbuf,
          wire, console, listening, shutdown_request, serverPc, mainPc>>

sessVars == <<env, thread_scope, pc, more, stmt, n, raw_value, wclosed, why, wbuf, wire>>
srvVars == <<listening, shutdown_request, serverPc, mainPc>>

\* The names of the module that matter to a session, line 137
Names == {"should_exit", "halt", "Print"}

\* No environment: the connection has no handler yet
NoEnv == [name \in Names |-> "-"]

\* handle, line 137: dict(globals(), **locals()) is a new dictionary that
\* holds the module's names and the closure: should_exit is bound to a copy
\* of the value the module's flag had at that moment, halt to the module's
\* function, Print to the closure of this handler
repl_scope == [name \in Names |-> IF name = "should_exit" THEN "copy" ELSE name]

\* The environment after the statement should_exit = halt = Print = None
Rebound == [name \in Names |-> "None"]

RECURSIVE SumTo(_, _)
SumTo(f, k) == IF k = 0 THEN 0 ELSE f[k] + SumTo(f, k - 1)
TotalReads == SumTo(n, MaxConn)

Chunk(k, t, i) == [k |-> k, by |-> t, n |-> i]

\* ------------------------------------------------------------- transport
\* The three output streams an operation can touch, with a success flag
IO == [buf |-> wbuf, wire |-> wire, console |-> console, ok |-> TRUE]

\* socket writer: accepts bytes only (TypeError for str)
wfile_write(io, c, v, chunk) ==
    IF ~io.ok THEN io
    ELSE IF v.type = "bytes" THEN [io EXCEPT !.buf[c] = Append(@, chunk)]
    ELSE [io EXCEPT !.ok = FALSE]

wfile_flush(io, c) ==
    IF ~io.ok THEN io
    ELSE [io EXCEPT !.wire[c] = @ \o io.buf[c], !.buf[c] = <<>>]

\* The closure that handle() defines for connection c, lines 119-128
handle_print(io, c, f, chunk) ==
    LET g == bytes_ascii(Str(f.chars))
        io1 == wfile_write(io, c, g, chunk)
        io2 == wfile_write(io1, c, Bytes(<<"\n">>), Chunk("nl", chunk.by, chunk.n))
    IN wfile_flush(io2, c)

\* Variant: write without the flush
write_noflush(io, c, data, chunk) ==
    IF wclosed[c] THEN io
    ELSE IF ~IsAscii(data) THEN [io EXCEPT !.ok = FALSE]
    ELSE wfile_write(io, c, Bytes(data), chunk)

\* InteractiveSocket.write, lines 75-79: strict encode, then write and flush
write(io, c, data, chunk) ==
    IF wclosed[c] THEN io
    ELSE IF ~IsAscii(data) THEN [io EXCEPT !.ok = FALSE]
    ELSE wfile_flush(wfile_write(io, c, Bytes(data), chunk), c)

\* the print statement of the process: the console
print_console(io, chunk) == [io EXCEPT !.console[chunk.by] = Append(@, chunk)]

\* Variant: a display hook that ignores the routes and always prints
new_displayhook_console(io, t, data, chunk) ==
    IF data.none THEN io ELSE print_console(io, chunk)

\* new_displayhook running on thread t, lines 34-41
new_displayhook(io, t, data, chunk) ==
    IF data.none THEN io
    ELSE IF thread_scope[t] # 0 THEN handle_print(io, thread_scope[t], data, chunk)
    ELSE print_console(io, chunk)

\* new_excepthook running on thread t, lines 48-52: the formatted traceback
\* is an ASCII header followed by the text of the exception
new_excepthook(io, t, msg, chunk) ==
    new_displayhook(io, t, Val(<<"a">> \o msg), chunk)

Commit(io) == /\ wbuf' = io.buf
              /\ wire' = io.wire
              /\ console' = io.console

\* ------------------------------------------------------------------ init
Init ==
    /\ should_exit = FALSE
    /\ env = [c \in Conn |-> NoEnv]
    /\ thread_scope = [c \in Conn |-> 0]
    /\ pc = [c \in Conn |-> "idle"]
    /\ more = [c \in Conn |-> FALSE]
    /\ stmt = [c \in Conn |-> "-"]
    /\ n = [c \in Conn |-> 0]
    /\ raw_value = [c \in Conn |-> NoRead]
    /\ wclosed = [c \in Conn |-> FALSE]
    /\ why = [c \in Conn |-> "-"]
    /\ wbuf = [c \in Conn |-> <<>>]
    /\ wire = [c \in Conn |-> <<>>]
    /\ console = [t \in Thread |-> <<>>]
    /\ listening = TRUE
    /\ shutdown_request = FALSE
    /\ serverPc = "serving"
    /\ mainPc = "poll"

\* ------------------------------------------------------------ dispatcher
\* Variant: a server without ThreadingMixIn, which handles a connection in
\* the serve_forever thread and accepts the next one when it has ended
AcceptSerial(c) ==
    /\ serverPc = "serving"
    /\ ~shutdown_request
    /\ listening
    /\ pc[c] = "idle"
    /\ \A d \in Conn : d < c => pc[d] = "closed"
    /\ pc' = [pc EXCEPT ![c] = "handle"]
    /\ UNCHANGED <<should_exit, thread_scope, more, stmt, n, raw_value, wclosed, why, wbuf,
                   wire, console>>
    /\ UNCHANGED <<env, srvVars>>

\* serve_forever: accept one connection and start its worker thread
Accept(c) ==
    /\ serverPc = "serving"
    /\ ~shutdown_request
    /\ listening
    /\ pc[c] = "idle"
    /\ \A d \in Conn : d < c => pc[d] # "idle"
    /\ pc' = [pc EXCEPT ![c] = "handle"]
    /\ UNCHANGED <<should_exit, thread_scope, more, stmt, n, raw_value, wclosed, why, wbuf,
                   wire, console>>
    /\ UNCHANGED <<env, srvVars>>

\* serve_forever leaves its loop once shutdown() has asked for it
ServeForeverExit ==
    /\ serverPc = "serving"
    /\ shutdown_request
    /\ serverPc' = "stopped"
    /\ UNCHANGED <<should_exit, listening, shutdown_request, mainPc, console>>
    /\ UNCHANGED sessVars

\* ---------------------------------------------------------------- worker
\* Variant: the route kept in one process-wide variable instead of a
\* thread-local one
HandleSetupShared(c) ==
    /\ pc[c] = "handle"
    /\ thread_scope' = [t \in Conn |-> c]
    /\ pc' = [pc EXCEPT ![c] = "init"]
    /\ UNCHANGED <<should_exit, more, stmt, n, raw_value, wclosed, why, wbuf, wire, console>>
    /\ env' = [env EXCEPT ![c] = repl_scope]
    /\ UNCHANGED srvVars

\* Variant: the console is constructed before the route is installed
HandleSetupNoRoute(c) ==
    /\ pc[c] = "handle"
    /\ pc' = [pc EXCEPT ![c] = "init"]
    /\ UNCHANGED <<should_exit, thread_scope, more, stmt, n, raw_value, wclosed, why, wbuf,
                   wire, console>>
    /\ env' = [env EXCEPT ![c] = repl_scope]
    /\ UNCHANGED srvVars

\* handle, lines 119-137: define the closure and install it in the thread's scope
HandleSetup(c) ==
    /\ pc[c] = "handle"
    /\ thread_scope' = [thread_scope EXCEPT ![c] = c]
    /\ pc' = [pc EXCEPT ![c] = "init"]
    /\ UNCHANGED <<should_exit, more, stmt, n, raw_value, wclosed, why, wbuf, wire, console>>
    /\ env' = [env EXCEPT ![c] = repl_scope]
    /\ UNCHANGED srvVars

\* Variant: an exception leaving handle() takes every open connection down
CrashAll(c, io, i) ==
    /\ Commit(print_console(io, Chunk("handle_error", c, i)))
    /\ pc' = [d \in Conn |-> IF pc[d] = "idle" THEN "idle" ELSE "closed"]
    /\ wclosed' = [d \in Conn |-> pc[d] # "idle"]
    /\ why' = [why EXCEPT ![c] = "fault"]

\* An exception leaving handle(): process_request_thread reports it on the
\* console and closes the request
Crash(c, io, i) ==
    /\ Commit(print_console(io, Chunk("handle_error", c, i)))
    /\ pc' = [pc EXCEPT ![c] = "closed"]
    /\ wclosed' = [wclosed EXCEPT ![c] = TRUE]
    /\ why' = [why EXCEPT ![c] = "fault"]

\* Variant: a constructor that emits no notice
ConsoleInitSilent(c) ==
    /\ pc[c] = "init"
    /\ pc' = [pc EXCEPT ![c] = "interact"]
    /\ UNCHANGED <<should_exit, thread_scope, more, stmt, n, raw_value, wclosed, why,
                   wbuf, wire, console>>
    /\ UNCHANGED <<env, srvVars>>

\* InteractiveSocket.__init__, lines 61-72: the notice through the route
ConsoleInit(c) ==
    /\ pc[c] = "init"
    /\ LET io == IF thread_scope[c] = 0 THEN [IO EXCEPT !.ok = FALSE]
                 ELSE handle_print(IO, thread_scope[c], Val(<<"a">>), Chunk("notice", c, 0))
       IN IF io.ok
          THEN /\ Commit(io)
               /\ pc' = [pc EXCEPT ![c] = "interact"]
               /\ UNCHANGED <<wclosed, why>>
          ELSE Crash(c, IO, 0)
    /\ UNCHANGED <<should_exit, thread_scope, more, stmt, n, raw_value>>
    /\ UNCHANGED <<env, srvVars>>

\* console.interact(), line 148: the banner goes through self.write
InteractBanner(c) ==
    /\ pc[c] = "interact"
    /\ LET io == write(IO, c, <<"a", "\n">>, Chunk("banner", c, 0))
       IN IF io.ok
          THEN /\ Commit(io)
               /\ pc' = [pc EXCEPT ![c] = "prompt"]
               /\ UNCHANGED <<wclosed, why>>
          ELSE Crash(c, IO, 0)
    /\ UNCHANGED <<should_exit, thread_scope, more, stmt, n, raw_value>>
    /\ UNCHANGED <<env, srvVars>>

\* Variant: raw_input without the test of wfile.closed
raw_input_prompt_nocheck(c) ==
    /\ pc[c] = "prompt"
    /\ Commit(write(IO, c, <<"a">>, Chunk(IF more[c] THEN "ps2" ELSE "ps1", c, n[c] + 1)))
    /\ pc' = [pc EXCEPT ![c] = "read"]
    /\ UNCHANGED <<should_exit, thread_scope, more, stmt, n, wclosed, why>>
    /\ raw_value' = [raw_value EXCEPT ![c] = NoRead]
    /\ UNCHANGED <<env, srvVars>>

\* raw_input, lines 81-87: EOFError on a closed wfile, else the prompt
raw_input_prompt(c) ==
    /\ pc[c] = "prompt"
    /\ IF wclosed[c]
       THEN /\ pc' = [pc EXCEPT ![c] = "eof"]
            /\ UNCHANGED <<wbuf, wire, console>>
       ELSE /\ Commit(write(IO, c, <<"a">>,
                            Chunk(IF more[c] THEN "ps2" ELSE "ps1", c, n[c] + 1)))
            /\ pc' = [pc EXCEPT ![c] = "read"]
    /\ UNCHANGED <<should_exit, thread_scope, more, stmt, n, wclosed, why>>
    /\ raw_value' = [raw_value EXCEPT ![c] = NoRead]
    /\ UNCHANGED <<env, srvVars>>

\* Variant: the test for a disconnect made on the stripped line
IsDisconnectStripped(line) == Len(rstrip(line.chars)) = 0

\* raw_input, line 104: the test for a disconnect, on the line as read
IsDisconnect(line) == Len(line.chars) = 0

\* The client sends a line, or closes, after it has taken in what the server
\* sent so far
Received(c) == [IO EXCEPT !.wire[c] = <<>>]

\* raw_input, lines 90-107, and the push() of the returned line: a read of
\* zero bytes raises EOFError; a line that stayed bytes cannot be joined to
\* the buffer (TypeError leaves interact); an incomplete statement asks for
\* more; anything else is run.  A line that is empty after rstrip with an
\* empty buffer compiles to a statement that does nothing.
raw_input_read(c, in) ==
    /\ pc[c] = "read"
    /\ Len(in.raw) = 0 \/ TotalReads < MaxReads
    /\ raw_value' = [raw_value EXCEPT ![c] = in.raw]
    /\ LET line == Bytes(in.raw)
           r == decode_ascii(Bytes(rstrip(line.chars)))
       IN IF IsDisconnect(line)
          THEN /\ pc' = [pc EXCEPT ![c] = "eof"]
               /\ Commit(Received(c))
               /\ UNCHANGED <<n, more, stmt, wclosed, why>>
          ELSE /\ n' = [n EXCEPT ![c] = @ + 1]
               /\ IF r.type # "str"
                  THEN /\ Crash(c, Received(c), n[c] + 1)
                       /\ UNCHANGED <<more, stmt>>
                  ELSE /\ Commit(Received(c))
                       /\ UNCHANGED <<wclosed, why>>
                       /\ IF Len(r.chars) = 0 /\ ~more[c]
                          THEN /\ stmt' = [stmt EXCEPT ![c] = "pass"]
                               /\ pc' = [pc EXCEPT ![c] = "run"]
                               /\ UNCHANGED more
                          ELSE IF in.stmt = "more"
                          THEN /\ more' = [more EXCEPT ![c] = TRUE]
                               /\ pc' = [pc EXCEPT ![c] = "prompt"]
                               /\ UNCHANGED stmt
                          ELSE /\ stmt' = [stmt EXCEPT ![c] = in.stmt]
                               /\ more' = [more EXCEPT ![c] = FALSE]
                               /\ pc' = [pc EXCEPT ![c] = "run"]
    /\ UNCHANGED <<should_exit, thread_scope>>
    /\ UNCHANGED <<env, srvVars>>

\* runcode of a statement that does nothing (the empty line, an assignment)
\* or of an expression: the value goes to sys.displayhook; a failure inside
\* the hook is an exception of the statement, reported by showtraceback
\* through sys.excepthook
RunDisplay(c) ==
    /\ pc[c] = "run"
    /\ stmt[c] \in {"pass", "None", "expr_a", "expr_x"}
    /\ LET data == CASE stmt[c] = "expr_a" -> Val(<<"a">>)
                     [] stmt[c] = "expr_x" -> Val(<<"x">>)
                     [] OTHER -> None
           io == IF stmt[c] = "pass" THEN IO
                 ELSE new_displayhook(IO, c, data, Chunk("value", c, n[c]))
           tb == new_excepthook(IO, c, <<"a">>, Chunk("error", c, n[c]))
       IN IF io.ok
          THEN /\ Commit(io)
               /\ pc' = [pc EXCEPT ![c] = "prompt"]
               /\ UNCHANGED <<wclosed, why>>
          ELSE IF tb.ok
          THEN /\ Commit(tb)
               /\ pc' = [pc EXCEPT ![c] = "prompt"]
               /\ UNCHANGED <<wclosed, why>>
          ELSE Crash(c, IO, n[c])
    /\ UNCHANGED <<should_exit, thread_scope, more, n, raw_value>>
    /\ stmt' = [stmt EXCEPT ![c] = "-"]
    /\ UNCHANGED <<env, srvVars>>

\* runcode of a statement that calls the closure directly
RunPrint(c) ==
    /\ pc[c] = "run"
    /\ stmt[c] = "Print_a"
    /\ env[c]["Print"] = "Print"
    /\ LET io == handle_print(IO, c, Val(<<"a">>), Chunk("print", c, n[c]))
       IN /\ io.ok
          /\ Commit(io)
    /\ pc' = [pc EXCEPT ![c] = "prompt"]
    /\ UNCHANGED <<should_exit, thread_scope, more, n, raw_value, wclosed, why>>
    /\ stmt' = [stmt EXCEPT ![c] = "-"]
    /\ UNCHANGED <<env, srvVars>>

\* runcode of a statement that raises: showtraceback calls sys.excepthook.
\* When the hook itself fails, code.py up to 3.12 lets the exception leave
\* interact(), code.py from 3.13 reports it on sys.stderr and goes on.
RunRaise(c, contained) ==
    /\ pc[c] = "run"
    /\ stmt[c] \in {"raise_a", "raise_x"}
    /\ LET msg == IF stmt[c] = "raise_a" THEN <<"a">> ELSE <<"x">>
           io == new_excepthook(IO, c, msg, Chunk("error", c, n[c]))
       IN IF io.ok
          THEN /\ Commit(io)
               /\ pc' = [pc EXCEPT ![c] = "prompt"]
               /\ UNCHANGED <<wclosed, why>>
          ELSE IF contained
          THEN /\ Commit(print_console(IO, Chunk("excepthook_error", c, n[c])))
               /\ pc' = [pc EXCEPT ![c] = "prompt"]
               /\ UNCHANGED <<wclosed, why>>
          ELSE Crash(c, IO, n[c])
    /\ UNCHANGED <<should_exit, thread_scope, more, n, raw_value>>
    /\ stmt' = [stmt EXCEPT ![c] = "-"]
    /\ UNCHANGED <<env, srvVars>>

\* Variant: halt() announces itself with the print statement of the process
halt_notice_console(c) ==
    /\ pc[c] = "run"
    /\ stmt[c] = "halt"
    /\ env[c]["halt"] = "halt"
    /\ Commit(print_console(IO, Chunk("haltmsg", c, n[c])))
    /\ pc' = [pc EXCEPT ![c] = "halt"]
    /\ UNCHANGED <<should_exit, thread_scope, more, n, raw_value, wclosed, why>>
    /\ stmt' = [stmt EXCEPT ![c] = "-"]
    /\ UNCHANGED <<env, srvVars>>

\* halt, line 25: the notice through sys.displayhook
halt_notice(c) ==
    /\ pc[c] = "run"
    /\ stmt[c] = "halt"
    /\ env[c]["halt"] = "halt"
    /\ LET io == new_displayhook(IO, c, Val(<<"a">>), Chunk("haltmsg", c, n[c]))
       IN /\ io.ok
          /\ Commit(io)
    /\ pc' = [pc EXCEPT ![c] = "halt"]
    /\ UNCHANGED <<should_exit, thread_scope, more, n, raw_value, wclosed, why>>
    /\ stmt' = [stmt EXCEPT ![c] = "-"]
    /\ UNCHANGED <<env, srvVars>>

\* Variant: halt() toggles the flag
halt_toggle(c) ==
    /\ pc[c] = "halt"
    /\ should_exit' = ~should_exit
    /\ pc' = [pc EXCEPT ![c] = "prompt"]
    /\ UNCHANGED <<thread_scope, more, stmt, n, raw_value, wclosed, why, wbuf, wire, console>>
    /\ UNCHANGED <<env, srvVars>>

\* halt, line 26: the flag; halt() returns None, which the hook ignores
halt(c) ==
    /\ pc[c] = "halt"
    /\ should_exit' = TRUE
    /\ pc' = [pc EXCEPT ![c] = "prompt"]
    /\ UNCHANGED <<thread_scope, more, stmt, n, raw_value, wclosed, why, wbuf, wire, console>>
    /\ UNCHANGED <<env, srvVars>>

\* runcode of a statement that raises SystemExit: it leaves interact()
RunExit(c) ==
    /\ pc[c] = "run"
    /\ stmt[c] = "exit"
    /\ pc' = [pc EXCEPT ![c] = "exit"]
    /\ UNCHANGED <<should_exit, thread_scope, more, n, raw_value, wclosed, why, wbuf,
                   wire, console>>
    /\ stmt' = [stmt EXCEPT ![c] = "-"]
    /\ UNCHANGED <<env, srvVars>>

\* runcode of a statement that closes self.wfile (self is in repl_scope)
RunClose(c) ==
    /\ pc[c] = "run"
    /\ stmt[c] = "close"
    /\ wclosed' = [wclosed EXCEPT ![c] = TRUE]
    /\ pc' = [pc EXCEPT ![c] = "prompt"]
    /\ UNCHANGED <<should_exit, thread_scope, more, n, raw_value, why, wbuf, wire, console>>
    /\ stmt' = [stmt EXCEPT ![c] = "-"]
    /\ UNCHANGED <<env, srvVars>>

\* Variant: SystemExit treated like any other exception leaving handle()
SystemExitHandlerFault(c) ==
    /\ pc[c] = "exit"
    /\ Crash(c, IO, n[c])
    /\ UNCHANGED <<should_exit, thread_scope, more, stmt, n, raw_value>>
    /\ UNCHANGED <<env, srvVars>>

\* handle, lines 149-151: the final notification, then finish()
SystemExitHandler(c) ==
    /\ pc[c] = "exit"
    /\ LET io == handle_print(IO, c, Val(<<"a">>), Chunk("exitmsg", c, n[c]))
       IN /\ io.ok
          /\ Commit(io)
    /\ wclosed' = [wclosed EXCEPT ![c] = TRUE]
    /\ why' = [why EXCEPT ![c] = "exit"]
    /\ pc' = [pc EXCEPT ![c] = "closed"]
    /\ UNCHANGED <<should_exit, thread_scope, more, stmt, n, raw_value>>
    /\ UNCHANGED <<env, srvVars>>

\* interact() on EOFError: a newline and the exit message through self.write,
\* then handle() returns and the request is closed.  When the peer is gone the
\* write can fail with BrokenPipeError, which leaves handle().
InteractEOF(c, broken) ==
    /\ pc[c] = "eof"
    /\ LET io == write(IO, c, <<"\n">>, Chunk("eofnl", c, n[c]))
       IN IF broken /\ ~wclosed[c]
          THEN Crash(c, IO, n[c])
          ELSE /\ Commit(io)
               /\ wclosed' = [wclosed EXCEPT ![c] = TRUE]
               /\ why' = [why EXCEPT ![c] = "eof"]
               /\ pc' = [pc EXCEPT ![c] = "closed"]
    /\ UNCHANGED <<should_exit, thread_scope, more, stmt, n, raw_value>>
    /\ UNCHANGED <<env, srvVars>>

\* ----------------------------------------------------------- main thread
\* lines 173-177: the polling loop ends when it sees the flag, and the main
\* thread announces the shutdown on the console
MainPoll ==
    /\ mainPc = "poll"
    /\ should_exit
    /\ console' = [console EXCEPT ![MainThread] =
                       Append(@, Chunk("Shutting down.", MainThread, 0))]
    /\ mainPc' = "server_close"
    /\ UNCHANGED <<should_exit, env, thread_scope, pc, more, stmt, n, raw_value, wclosed,
                   why, wbuf, wire, listening, shutdown_request, serverPc>>

\* Variant: server_close() that leaves the listening socket open
server_close_keeps_socket(block_on_close) ==
    /\ mainPc = "server_close"
    /\ mainPc' = IF block_on_close THEN "join_workers" ELSE "shutdown"
    /\ UNCHANGED <<should_exit, console, listening, shutdown_request, serverPc>>
    /\ UNCHANGED sessVars

\* Variant: server_close() that also closes the open connections
server_close_drops_sessions(block_on_close) ==
    /\ mainPc = "server_close"
    /\ listening' = FALSE
    /\ mainPc' = "shutdown"
    /\ pc' = [c \in Conn |-> IF pc[c] = "idle" THEN "idle" ELSE "closed"]
    /\ wclosed' = [c \in Conn |-> pc[c] # "idle"]
    /\ UNCHANGED <<should_exit, console, shutdown_request, serverPc, thread_scope,
                   more, stmt, n, raw_value, why, wbuf, wire, env>>

\* line 178: server_close() closes the listening socket; a ThreadingMixIn with
\* block_on_close set (Python 3.7 and later) then waits for the worker
\* threads, an older one returns at once
server_close(block_on_close) ==
    /\ mainPc = "server_close"
    /\ listening' = FALSE
    /\ mainPc' = IF block_on_close THEN "join_workers" ELSE "shutdown"
    /\ UNCHANGED <<should_exit, console, shutdown_request, serverPc>>
    /\ UNCHANGED sessVars

\* line 178, continued: server_close() returns when every worker has ended
JoinWorkers ==
    /\ mainPc = "join_workers"
    /\ \A c \in Conn : pc[c] \in {"idle", "closed"}
    /\ mainPc' = "shutdown"
    /\ UNCHANGED <<should_exit, console, listening, shutdown_request, serverPc>>
    /\ UNCHANGED sessVars

\* Variant: shutdown() that waits without setting the request flag
shutdown_noflag ==
    /\ mainPc = "shutdown"
    /\ mainPc' = "join"
    /\ UNCHANGED <<should_exit, console, listening, shutdown_request, serverPc>>
    /\ UNCHANGED sessVars

\* line 179: shutdown() asks serve_forever to stop and waits until it has
shutdown ==
    /\ mainPc = "shutdown"
    /\ shutdown_request' = TRUE
    /\ mainPc' = "join"
    /\ UNCHANGED <<should_exit, console, listening, serverPc>>
    /\ UNCHANGED sessVars

\* lines 179-180: shutdown() and server_thread.join() return once
\* serve_forever has ended; the main thread is done
MainJoin ==
    /\ mainPc = "join"
    /\ serverPc = "stopped"
    /\ mainPc' = "done"
    /\ UNCHANGED <<should_exit, console, listening, shutdown_request, serverPc>>
    /\ UNCHANGED sessVars

\* ------------------------------------------------------------------ next
Worker(c) ==
    \/ HandleSetup(c)
    \/ ConsoleInit(c)
    \/ InteractBanner(c)
    \/ raw_input_prompt(c)
    \/ \E in \in Inputs : raw_input_read(c, in)
    \/ RunDisplay(c)
    \/ RunPrint(c)
    \/ \E contained \in BOOLEAN : RunRaise(c, contained)
    \/ halt_notice(c)
    \/ halt(c)
    \/ RunExit(c)
    \/ RunClose(c)
    \/ SystemExitHandler(c)
    \/ \E broken \in BOOLEAN : InteractEOF(c, broken)

Main ==
    \/ MainPoll
    \/ \E block_on_close \in BOOLEAN : server_close(block_on_close)
    \/ JoinWorkers
    \/ shutdown
    \/ MainJoin

Next ==
    \/ \E c \in Conn : Accept(c)
    \/ ServeForeverExit
    \/ \E c \in Conn : Worker(c)
    \/ Main

Spec == Init /\ [][Next]_vars

\* The main thread polls once per second (lines 173-174) and then runs lines
\* 177-180 without waiting for anything but the threads it joins, and
\* serve_forever tests its request flag every poll interval: both are
\* threads of the operating system that run whenever they can. Nothing is
\* assumed about the workers, which wait for their clients.
FairSpec == Spec /\ WF_vars(Main) /\ WF_vars(ServeForeverExit)

\* ------------------------------------- statements that rebind the names
\* A line of ASCII text holding the statement should_exit = halt = Print = None
RebindInput == [raw |-> <<"a", "\n">>, stmt |-> "rebind"]

\* Variant: the console runs its statements in the module's own namespace,
\* which all sessions and the polling loop share
RunRebindGlobal(c) ==
    /\ pc[c] = "run"
    /\ stmt[c] = "rebind"
    /\ env' = [d \in Conn |-> IF env[d] = NoEnv THEN NoEnv ELSE Rebound]
    /\ should_exit' = FALSE
    /\ pc' = [pc EXCEPT ![c] = "prompt"]
    /\ stmt' = [stmt EXCEPT ![c] = "-"]
    /\ UNCHANGED <<thread_scope, more, n, raw_value, wclosed, why, wbuf, wire, console>>
    /\ UNCHANGED srvVars

\* runcode of the assignment: exec(code, self.locals) binds the names in the
\* session's repl_scope; an assignment displays nothing
RunRebind(c) ==
    /\ pc[c] = "run"
    /\ stmt[c] = "rebind"
    /\ env' = [env EXCEPT ![c] = Rebound]
    /\ pc' = [pc EXCEPT ![c] = "prompt"]
    /\ stmt' = [stmt EXCEPT ![c] = "-"]
    /\ UNCHANGED <<should_exit, thread_scope, more, n, raw_value, wclosed, why, wbuf, wire,
                   console>>
    /\ UNCHANGED srvVars

\* runcode of halt() or Print(...) in a session that has rebound the name:
\* calling None raises TypeError, which showtraceback reports through the
\* route of the thread (the closure itself is still held by thread_scope)
RunUnbound(c) ==
    /\ pc[c] = "run"
    /\ \/ stmt[c] = "halt" /\ env[c]["halt"] # "halt"
       \/ stmt[c] = "Print_a" /\ env[c]["Print"] # "Print"
    /\ LET tb == new_excepthook(IO, c, <<"a">>, Chunk("error", c, n[c]))
       IN /\ tb.ok
          /\ Commit(tb)
    /\ pc' = [pc EXCEPT ![c] = "prompt"]
    /\ stmt' = [stmt EXCEPT ![c] = "-"]
    /\ UNCHANGED <<should_exit, env, thread_scope, more, n, raw_value, wclosed, why>>
    /\ UNCHANGED srvVars

NextEnv ==
    \/ Next
    \/ \E c \in Conn : raw_input_read(c, RebindInput)
    \/ \E c \in Conn : RunRebind(c)
    \/ \E c \in Conn : RunUnbound(c)

SpecEnv == Init /\ [][NextEnv]_vars

\* ------------------------------------------- the display hook on its own
\* new_displayhook applied to each of its inputs: a thread that is about to
\* display None, an ASCII value or a non-ASCII value, with or without a
\* displayhook attribute in its thread-local scope
HookInit ==
    /\ should_exit = FALSE
    /\ env = [c \in Conn |-> repl_scope]
    /\ thread_scope \in [Conn -> {0} \cup Conn]
    /\ \A c \in Conn : thread_scope[c] \in {0, c}
    /\ pc = [c \in Conn |-> "run"]
    /\ more = [c \in Conn |-> FALSE]
    /\ stmt \in [Conn -> {"None", "expr_a", "expr_x"}]
    /\ n = [c \in Conn |-> 1]
    /\ raw_value = [c \in Conn |-> NoRead]
    /\ wclosed = [c \in Conn |-> FALSE]
    /\ why = [c \in Conn |-> "-"]
    /\ wbuf = [c \in Conn |-> <<>>]
    /\ wire = [c \in Conn |-> <<>>]
    /\ console = [t \in Thread |-> <<>>]
    /\ listening = TRUE
    /\ shutdown_request = FALSE
    /\ serverPc = "serving"
    /\ mainPc = "poll"

HookNext == \E c \in Conn : RunDisplay(c)

SpecHook == HookInit /\ [][HookNext]_vars

\* ================================================================ claims
Open(c) == pc[c] \notin {"idle", "closed"}
IsOutput(ch) == ch.k \in {"value", "error", "print", "haltmsg", "exitmsg"}
HasKind(w, k) == \E i \in 1..Len(w) : w[i].k = k

\* C1: whatever is emitted on behalf of a session (by its closure, by the
\* display hook or by the error hook on its worker thread) is written to that
\* session's connection only: every chunk buffered for or received on
\* connection c was emitted by the worker of c.
C1_OutputIsolation ==
    \A c \in Conn :
        /\ \A i \in 1..Len(wire[c]) : wire[c][i].by = c
        /\ \A i \in 1..Len(wbuf[c]) : wbuf[c][i].by = c

\* two sessions are open together and each has received output of a statement
C1_Witness ==
    \E c, d \in Conn :
        /\ c # d
        /\ Open(c) /\ Open(d)
        /\ \E i \in 1..Len(wire[c]) : IsOutput(wire[c][i])
        /\ \E i \in 1..Len(wire[d]) : IsOutput(wire[d][i])

NoAccept == \A c \in Conn : pc[c] = "idle" => pc'[c] = "idle"

\* C2 as stated: once halt() has set should_exit, no connection is accepted.
C2_NoAcceptAfterHalt == [][should_exit => NoAccept]_vars

\* C2 amended: once the main thread has seen the flag and server_close() has
\* returned from closing the listening socket, no connection is accepted.
C2_NoAcceptAfterServerClose ==
    [][mainPc \notin {"poll", "server_close"} => NoAccept]_vars

\* the listening socket has been closed while a connection could still arrive
\* and serve_forever is still running
C2_Witness ==
    /\ mainPc \notin {"poll", "server_close"}
    /\ serverPc = "serving"
    /\ \E c \in Conn : pc[c] = "idle"
    /\ \E c \in Conn : Open(c)

\* C3: shutdown never cuts off an open session: no step of the polling loop,
\* of server_close, shutdown or join, nor of serve_forever stopping, changes
\* the position, the streams or the pending statement of any session, and a
\* session is closed only by a step of its own worker (end of input, explicit
\* exit, or an exception of that worker), never by the shutdown sequence.
C3_ShutdownLeavesSessions ==
    [][/\ (mainPc' # mainPc \/ serverPc' # serverPc \/ listening' # listening
              \/ shutdown_request' # shutdown_request)
          => (pc' = pc /\ wclosed' = wclosed /\ wire' = wire /\ wbuf' = wbuf
              /\ stmt' = stmt /\ n' = n /\ why' = why)
       /\ \A c \in Conn :
            (pc[c] # "closed" /\ pc'[c] = "closed")
            => /\ pc[c] \in {"init", "interact", "read", "run", "exit", "eof"}
               /\ why'[c] \in {"eof", "exit", "fault"}
               /\ \A d \in Conn \ {c} : pc'[d] = pc[d] /\ wclosed'[d] = wclosed[d]
               /\ UNCHANGED srvVars]_vars

\* after the listening socket was closed, the session that called halt() is
\* about to read its next line while another one is evaluating a statement
C3_Witness ==
    /\ should_exit
    /\ ~listening
    /\ \E c, d \in Conn :
        /\ c # d
        /\ HasKind(wire[c], "haltmsg")
        /\ pc[c] = "read"
        /\ pc[d] = "run"

\* C4: should_exit is monotonic: no step takes it from true to false.
C4_FlagMonotonic == [][should_exit => should_exit']_vars

\* the flag is still set after the session that called halt() went on to its
\* next prompt, another session has ended and the main thread has finished
C4_Witness ==
    /\ should_exit
    /\ mainPc = "done"
    /\ \E c, d \in Conn :
        /\ c # d
        /\ pc[c] = "closed" /\ why[c] = "eof"
        /\ pc[d] = "read" /\ HasKind(wire[d], "haltmsg")

\* C5 as stated: a bare newline on a fresh connection is a disconnect and is
\* never handed to the evaluator.
C5_EmptyLineIsDisconnect ==
    \A c \in Conn :
        (n[c] = 1 /\ raw_value[c] = <<"\n">>) => pc[c] \in {"eof", "closed"}

\* C5 amended: a read of zero bytes is a disconnect: the session ends at once
\* and nothing is handed to the evaluator; a line that holds a newline is not
\* a disconnect, and a bare newline is run as an empty statement.
C5_ZeroBytesIsDisconnect ==
    \A c \in Conn :
        /\ Len(raw_value[c]) = 0 => pc[c] \in {"eof", "closed"}
        /\ (pc[c] = "eof" /\ ~wclosed[c]) => Len(raw_value[c]) = 0
        /\ (pc[c] = "run" /\ raw_value[c] = <<"\n">> /\ n[c] = 1) => stmt[c] = "pass"

\* a fresh connection whose first read returned zero bytes
C5_Witness ==
    \E c \in Conn : n[c] = 0 /\ Len(raw_value[c]) = 0 /\ pc[c] = "eof"

Raising == {"raise_a", "raise_x", "expr_x"}
Runs(c, kinds) == pc[c] = "run" /\ stmt[c] \in kinds /\ pc'[c] # "run"
CountKind(w, k) == Cardinality({i \in 1..Len(w) : w[i].k = k})

\* C6: a statement whose evaluation raises an error on connection A puts
\* exactly one formatted error message on A, and nothing on any other
\* connection or on the process console.
C6_OneErrorMessage ==
    [][\A c \in Conn :
          Runs(c, Raising)
          => /\ CountKind(wire'[c], "error") = CountKind(wire[c], "error") + 1
             /\ \A d \in Conn \ {c} : wire'[d] = wire[d]
             /\ console' = console]_vars

\* C7: an evaluation-time error other than SystemExit never ends the session:
\* after the statement the session is back at the prompt.
C7_ErrorKeepsSession ==
    [][\A c \in Conn : Runs(c, Raising) => pc'[c] = "prompt"]_vars

\* C8: on SystemExit the worker writes exactly one final notification to its
\* own connection and closes the transport; nothing is written to that
\* connection afterwards, nothing is reported on the console, and should_exit,
\* the dispatcher, the main thread and every other session are unchanged.
C8_SystemExit ==
    [][\A c \in Conn :
          /\ Runs(c, {"exit"})
             => /\ pc'[c] = "exit"
                /\ wire' = wire /\ wbuf' = wbuf /\ console' = console
                /\ wclosed' = wclosed
          /\ (pc[c] = "exit" /\ pc'[c] # "exit")
             => /\ wire'[c] = wire[c] \o <<Chunk("exitmsg", c, n[c]), Chunk("nl", c, n[c])>>
                /\ wbuf'[c] = <<>>
                /\ wclosed'[c]
                /\ pc'[c] = "closed"
                /\ why'[c] = "exit"
                /\ console' = console
                /\ should_exit' = should_exit
                /\ UNCHANGED <<env, srvVars>>
                /\ \A d \in Conn \ {c} :
                      /\ pc'[d] = pc[d] /\ wire'[d] = wire[d] /\ wbuf'[d] = wbuf[d]
                      /\ wclosed'[d] = wclosed[d] /\ thread_scope'[d] = thread_scope[d]
                      /\ stmt'[d] = stmt[d] /\ more'[d] = more[d] /\ n'[d] = n[d]
          /\ (pc[c] = "closed" /\ why[c] = "exit")
             => (wire'[c] = wire[c] /\ wbuf'[c] = wbuf[c] /\ pc'[c] = "closed")]_vars

\* a session has ended by SystemExit with its notification delivered while
\* another session is still open
C8_Witness ==
    \E c, d \in Conn :
        /\ c # d
        /\ pc[c] = "closed" /\ why[c] = "exit"
        /\ CountKind(wire[c], "exitmsg") = 1
        /\ Open(d)

Greeting(c) ==
    <<Chunk("notice", c, 0), Chunk("nl", c, 0), Chunk("banner", c, 0), Chunk("ps1", c, 1)>>

\* C9: what a new connection receives begins with exactly one notice line,
\* then the banner, then the prompt for a fresh statement; the notice comes
\* before the first prompt and nothing is read before that prompt is written.
C9_Greeting ==
    \A c \in Conn :
        /\ pc[c] \in {"idle", "handle", "init"} => wire[c] = <<>>
        /\ pc[c] = "interact" => wire[c] = SubSeq(Greeting(c), 1, 2)
        /\ (pc[c] = "prompt" /\ n[c] = 0) => wire[c] = SubSeq(Greeting(c), 1, 3)
        /\ (pc[c] = "read" /\ n[c] = 0) => wire[c] = Greeting(c)
        /\ (n[c] > 0 \/ raw_value[c] # NoRead)
              => pc[c] \notin {"idle", "handle", "init", "interact"}
        /\ CountKind(wire[c], "notice") <= 1

\* a connection that has received the whole greeting and is waiting for its
\* first line
C9_Witness ==
    \E c \in Conn : pc[c] = "read" /\ n[c] = 0 /\ wire[c] = Greeting(c)

IsPrompt(ch) == ch.k \in {"ps1", "ps2"}

\* C10: within a session the output of statement i is completely written and
\* flushed before the prompt for statement i+1 is written and before
\* statement i+1 is read: at every prompt and at every read nothing is left in
\* the buffer, every message is followed by its newline, and what the client
\* holds when line i+1 is read is the output of statement i followed by the
\* prompt for statement i+1.
C10_OutputOrder ==
    \A c \in Conn :
        /\ pc[c] \in {"prompt", "read"} => wbuf[c] = <<>>
        /\ \A i \in 1..Len(wire[c]) :
              (IsOutput(wire[c][i]) \/ wire[c][i].k = "notice")
              => (i < Len(wire[c]) /\ wire[c][i + 1].k = "nl")
        /\ \A i, j \in 1..Len(wire[c]) : i < j => wire[c][i].n <= wire[c][j].n
        /\ pc[c] = "read"
              => /\ Len(wire[c]) > 0
                 /\ IsPrompt(wire[c][Len(wire[c])])
                 /\ wire[c][Len(wire[c])].n = n[c] + 1
                 /\ \A i \in 1..(Len(wire[c]) - 1) :
                       wire[c][i].n = n[c] /\ ~IsPrompt(wire[c][i])

\* a session waits for its third line, holding the value of its second
\* statement and the prompt that follows it
C10_Witness ==
    \E c \in Conn :
        /\ pc[c] = "read" /\ n[c] = 2
        /\ wire[c] = <<Chunk("value", c, 2), Chunk("nl", c, 2), Chunk("ps1", c, 3)>>

\* C11: every call of halt() from a session puts the notice on that session's
\* connection and nowhere else, and leaves should_exit true, also when halt()
\* had been called before.
C11_HaltNotice ==
    \A c \in Conn :
        /\ pc[c] = "halt"
              => /\ Len(wire[c]) >= 2
                 /\ wire[c][Len(wire[c]) - 1] = Chunk("haltmsg", c, n[c])
                 /\ wire[c][Len(wire[c])] = Chunk("nl", c, n[c])
        /\ (HasKind(wire[c], "haltmsg") /\ pc[c] # "halt") => should_exit
        /\ \A i \in 1..Len(wire[c]) : wire[c][i].k = "haltmsg" => wire[c][i].by = c
        /\ \A t \in Thread : ~HasKind(console[t], "haltmsg")

\* halt() has returned in two sessions, each holding its own notice
C11_Witness ==
    /\ should_exit
    /\ \E c, d \in Conn :
        /\ c # d
        /\ pc[c] = "read" /\ pc[d] = "read"
        /\ HasKind(wire[c], "haltmsg") /\ HasKind(wire[d], "haltmsg")

\* C12: while the shutdown sequence has not started, the dispatcher is never
\* blocked by a session: whatever the open sessions are doing, a connection
\* that arrives can be accepted, and every accepted connection has its own
\* worker with its own route.
C12_AcceptNotBlocked ==
    /\ (mainPc = "poll" /\ \E c \in Conn : pc[c] = "idle")
          => ENABLED (\E c \in Conn : Accept(c))
    /\ \A c \in Conn : thread_scope[c] \in {0, c}
    /\ \A c \in Conn : pc[c] = "idle" => (thread_scope[c] = 0 /\ wire[c] = <<>>)

\* a connection has just been accepted while another session is blocked in
\* its read
C12_Witness ==
    \E c, d \in Conn : c # d /\ pc[c] = "read" /\ pc[d] = "handle" /\ mainPc = "poll"

\* C13: an exception that leaves one worker is contained there: that
\* connection is dropped, and the dispatcher, the main thread, should_exit and
\* every other session are unchanged.
C13_FaultContained ==
    [][\A c \in Conn :
          (pc[c] # "closed" /\ pc'[c] = "closed" /\ why'[c] = "fault")
          => /\ wclosed'[c]
             /\ UNCHANGED <<env, srvVars>>
             /\ should_exit' = should_exit
             /\ \A d \in Conn \ {c} :
                   /\ pc'[d] = pc[d] /\ wire'[d] = wire[d] /\ wbuf'[d] = wbuf[d]
                   /\ wclosed'[d] = wclosed[d] /\ thread_scope'[d] = thread_scope[d]
                   /\ stmt'[d] = stmt[d] /\ more'[d] = more[d] /\ n'[d] = n[d]
                   /\ why'[d] = why[d]]_vars

\* a worker has ended by an exception while another session is waiting for
\* input and the dispatcher is still serving
C13_Witness ==
    \E c, d \in Conn :
        /\ c # d
        /\ pc[c] = "closed" /\ why[c] = "fault"
        /\ pc[d] = "read"
        /\ serverPc = "serving" /\ listening

\* C14: text outside ASCII never fails the connection: after a line with a
\* non-ASCII character was read, or a statement handed a non-ASCII value or
\* error text to the output closure, the session is open and back at the
\* prompt (or running the statement).
C14_NonAsciiKeepsSession ==
    [][\A c \in Conn :
          (\/ (pc[c] = "read" /\ pc'[c] # "read" /\ ~IsAscii(raw_value'[c]))
           \/ Runs(c, {"expr_x", "raise_x"}))
          => (pc'[c] \in {"prompt", "run"} /\ why'[c] = "-")]_vars

\* C15 as stated: the route is installed before the first output and is
\* removed no later than the close of the connection.
C15_RouteRemovedAtClose ==
    \A c \in Conn :
        /\ (wire[c] # <<>> \/ wbuf[c] # <<>>) => thread_scope[c] = c
        /\ (wclosed[c] \/ pc[c] = "closed") => thread_scope[c] = 0

\* C15 amended: the route is installed before the session produces its first
\* output, and the code never removes it: from the installation on, also when
\* the connection has been closed, the route entry of the worker exists.
C15_RouteInstalledFirst ==
    \A c \in Conn :
        /\ pc[c] \in {"idle", "handle"}
              => (thread_scope[c] = 0 /\ wire[c] = <<>> /\ wbuf[c] = <<>>)
        /\ pc[c] \notin {"idle", "handle"} => thread_scope[c] = c

\* a connection has been closed by finish() after SystemExit and the route
\* of its worker is still installed
C15_Witness ==
    \E c \in Conn : pc[c] = "closed" /\ why[c] = "exit" /\ wclosed[c] /\ thread_scope[c] = c

\* C16: in the shutdown sequence the dispatcher is stopped first and the
\* listening socket is closed afterwards: the socket is never closed while
\* serve_forever is still running.
C16_StopBeforeClose == ~listening => serverPc = "stopped"

\* C18: a read of zero bytes, or a write stream found closed when the next
\* line is asked for, ends the session without any further evaluation: no
\* prompt is written for a closed stream, the pending lines of a multi-line
\* statement are never run, and nothing more is read on the connection.
C18_DisconnectEndsSession ==
    [][\A c \in Conn :
          /\ (pc[c] = "read" /\ pc'[c] # "read" /\ Len(raw_value'[c]) = 0)
                => (pc'[c] = "eof" /\ n'[c] = n[c] /\ stmt'[c] = stmt[c])
          /\ (pc[c] = "prompt" /\ wclosed[c] /\ pc'[c] # "prompt")
                => (pc'[c] = "eof" /\ wire'[c] = wire[c] /\ n'[c] = n[c]
                    /\ stmt'[c] = stmt[c])
          /\ pc[c] \in {"eof", "closed"}
                => /\ pc'[c] \in {"eof", "closed"}
                   /\ n'[c] = n[c] /\ stmt'[c] = stmt[c] /\ more'[c] = more[c]
                   /\ raw_value'[c] = raw_value[c]]_vars

\* a session has ended on a read of zero bytes with the first lines of a
\* multi-line statement still pending
C18_Witness ==
    \E c \in Conn :
        pc[c] = "closed" /\ why[c] = "eof" /\ more[c] /\ Len(raw_value[c]) = 0

\* C17: new_displayhook does exactly one of three things: for None it writes
\* nothing anywhere; for a value in a thread with a route the value goes to
\* the sink of that route (a non-ASCII value makes the sink raise, and the
\* error text takes the same route) and nothing goes to the console or to
\* another connection; for a value in a thread without a route the value is
\* printed on the console and no connection receives anything.
C17_DisplayHook ==
    [][\A c \in Conn :
          Runs(c, {"None", "expr_a", "expr_x"})
          => /\ stmt[c] = "None"
                   => (wire' = wire /\ wbuf' = wbuf /\ console' = console)
             /\ (stmt[c] # "None" /\ thread_scope[c] # 0)
                   => /\ console' = console
                      /\ \A d \in Conn \ {thread_scope[c]} :
                            wire'[d] = wire[d] /\ wbuf'[d] = wbuf[d]
                      /\ wire'[thread_scope[c]] = wire[thread_scope[c]] \o
                            <<Chunk(IF stmt[c] = "expr_a" THEN "value" ELSE "error",
                                    c, n[c]),
                              Chunk("nl", c, n[c])>>
             /\ (stmt[c] # "None" /\ thread_scope[c] = 0)
                   => /\ wire' = wire /\ wbuf' = wbuf
                      /\ console' = [console EXCEPT
                            ![c] = Append(@, Chunk("value", c, n[c]))]]_vars

\* the hook has printed a value of a thread without a route on the console,
\* and delivered a value of a thread with a route to its connection
C17_Witness ==
    \E c, d \in Conn :
        /\ thread_scope[c] = 0 /\ pc[c] = "prompt"
        /\ console[c] = <<Chunk("value", c, n[c])>> /\ wire[c] = <<>>
        /\ thread_scope[d] = d /\ pc[d] = "prompt"
        /\ HasKind(wire[d], "value") /\ console[d] = <<>>

\* C19: the process never terminates while should_exit is false; and if the
\* open sessions eventually all end (and stay ended), then from every state
\* with should_exit set the main thread eventually has run server_close,
\* shutdown and join to the end, with no worker left.
Quiet == \A c \in Conn : pc[c] \in {"idle", "closed"}

C19_ShutdownCompletes ==
    /\ [](mainPc = "done" => should_exit)
    /\ (<>[]Quiet) => (should_exit ~> (mainPc = "done" /\ Quiet))

\* the process has terminated after halt(), all its sessions ended
C19_Witness ==
    /\ mainPc = "done" /\ should_exit /\ Quiet /\ serverPc = "stopped"
    /\ \E c \in Conn : pc[c] = "closed"

\* C20: each session has an environment of its own: a statement of session c
\* that rebinds names (should_exit, halt and Print among them) changes the
\* environment of c only; no step of one worker changes the environment of
\* another session, and the rebinding leaves the should_exit of the module,
\* which the polling loop reads, and the server as they are.
C20_OwnEnvironment ==
    [][\A c \in Conn :
          /\ Runs(c, {"rebind"})
                => /\ env'[c] = Rebound
                   /\ should_exit' = should_exit
                   /\ UNCHANGED srvVars
          /\ env'[c] # env[c]
                => /\ pc[c] \in {"handle", "run"}
                   /\ \A d \in Conn \ {c} : env'[d] = env[d]]_vars

\* session c has rebound the names and found halt gone, while session d,
\* with the names as they were, has called halt() and set the module's flag
C20_Witness ==
    \E c, d \in Conn :
        /\ c # d
        /\ env[c] = Rebound /\ pc[c] = "read"
        /\ env[d] = repl_scope
        /\ HasKind(wire[d], "haltmsg") /\ pc[d] = "read"
        /\ should_exit

====
